---- MODULE Spec2Model ----
(***************************************************************************)
(* A model of merkle_tree.py: a binary hash tree over a list of blocks,    *)
(* with XOR as the node-combination primitive.                             *)
(*                                                                         *)
(* Node objects live in a heap (a sequence of records addressed by their   *)
(* index, 0 standing for Python's None), so that the sharing between a     *)
(* node and its copy() is the sharing the interpreter produces.            *)
(* An Optional[T] result is a sequence of length 0 (None) or 1 (a value).  *)
(***************************************************************************)
EXTENDS Integers, Sequences, FiniteSets, TLC

VARIABLES values, hash_fn, heap, root, pc, ret, ext, writes, stack

vars == <<values, hash_fn, heap, root, pc, ret, ext, writes, stack>>

(***************************************************************************)
(* Bounds of the model.                                                    *)
(***************************************************************************)
\* length, in bytes, of the output of the injected hash function
HashLen == 5
\* number of different blocks a caller can put into a list
NumBlocks == 3
\* longest block list given to the constructor in Spec
MaxBlocks == 3
\* longest list of pairwise distinct blocks given to the constructor
MaxShape == 8
\* deepest chain of _buildTreeRec calls followed in SpecBuild
MaxDepth == 5
\* most writes external code makes through the node the root property returned
MaxWrites == 1

None == <<>>
Some(x) == <<x>>
NoNode == 0

RECURSIVE Pow2(_)
Pow2(n) == IF n = 0 THEN 1 ELSE 2 * Pow2(n - 1)

(***************************************************************************)
(* bytes.  A bytes object is a sequence of integers 0..255.                *)
(***************************************************************************)
\* _a ^ _b on two bytes
RECURSIVE ByteXor(_, _)
ByteXor(a, b) ==
  IF a = 0 THEN b
  ELSE IF b = 0 THEN a
  ELSE (2 * ByteXor(a \div 2, b \div 2)) + (((a % 2) + (b % 2)) % 2)

\* bytes_xor(a, b): the assert raises when the lengths differ
bytes_xor_raises(a, b) == Len(a) # Len(b)

bytes_xor(a, b) == [i \in 1..Len(a) |-> ByteXor(a[i], b[i])]

\* the string of HashLen bytes, each 0 or 1, that spells v in binary
Encode(v) == [i \in 1..HashLen |-> (v \div Pow2(HashLen - i)) % 2]

\* a number that identifies a bytes object of bytes 0 and 1: its length and its bits
RECURSIVE Code(_)
Code(x) ==
  IF Len(x) = 0 THEN 1
  ELSE (2 * Code(SubSeq(x, 1, Len(x) - 1))) + (x[Len(x)] % 2)

(***************************************************************************)
(* The injected hash function, HashFn = Callable[[bytes], bytes]: one of a *)
(* family of functions with an output of HashLen bytes.  With an odd mul   *)
(* the function is one-to-one on the inputs of HashLen bytes; with an even *)
(* mul it has collisions there.                                            *)
(***************************************************************************)
HashFns == [mul : {3, 5, 6, 11}, add : {1, 7, 12}]

Hash(fn, x) == Encode(((fn.mul * Code(x)) + fn.add) % Pow2(HashLen))

HashValues == {Encode(v) : v \in 0..(Pow2(HashLen) - 1)}

\* the blocks callers build trees from: Blocks for the lists with repetitions,
\* ShapeBlocks for the lists of pairwise distinct blocks
Block(k) == Encode(k)
Blocks == {Block(k) : k \in 0..(NumBlocks - 1)}
ShapeBlocks == {Block(k) : k \in 0..(MaxShape - 1)}

RECURSIVE SeqsUpTo(_, _)
SeqsUpTo(S, n) ==
  IF n = 0 THEN {<<>>}
  ELSE LET shorter == SeqsUpTo(S, n - 1)
       IN  shorter \cup {Append(s, x) : s \in {t \in shorter : Len(t) = n - 1}, x \in S}

Range(s) == {s[i] : i \in 1..Len(s)}

(***************************************************************************)
(* Node                                                                    *)
(***************************************************************************)
Node(left, right, value, content, is_copied) ==
  [left |-> left, right |-> right, value |-> value, content |-> content,
   is_copied |-> is_copied]

\* Node.copy: the same children (the same objects), value and content, is_copied True
NodeCopy(n) == Node(n.left, n.right, n.value, n.content, TRUE)

\* a new object: the heap with it, and its address
Alloc(h, n) == [heap |-> Append(h, n), id |-> Len(h) + 1]

(***************************************************************************)
(* MerkleTree._buildTree / _buildTreeRec                                   *)
(***************************************************************************)
\* the leaves of _buildTree, in the order of the list comprehension
RECURSIVE Leaves(_, _, _)
Leaves(fn, vals, h) ==
  IF Len(vals) = 0 THEN [heap |-> h, nodes |-> <<>>]
  ELSE LET a    == Alloc(h, Node(NoNode, NoNode, Hash(fn, vals[1]), vals[1], FALSE))
           rest == Leaves(fn, SubSeq(vals, 2, Len(vals)), a.heap)
       IN  [heap |-> rest.heap, nodes |-> <<a.id>> \o rest.nodes]

\* nodes.append(nodes[-1].copy()) when len(nodes) is odd
Padded(h, nodes) ==
  IF Len(nodes) % 2 = 1
  THEN LET a == Alloc(h, NodeCopy(h[nodes[Len(nodes)]]))
       IN  [heap |-> a.heap, nodes |-> Append(nodes, a.id)]
  ELSE [heap |-> h, nodes |-> nodes]

\* Parent with the two values concatenated, not XORed, before hashing
ParentConcat(fn, h, l, r) ==
  Node(l, r, Hash(fn, h[l].value \o h[r].value), h[l].content \o h[r].content, FALSE)

\* Node(l, r, hash_fn(bytes_xor(l.value, r.value)), l.content + r.content)
Parent(fn, h, l, r) ==
  Node(l, r, Hash(fn, bytes_xor(h[l].value, h[r].value)), h[l].content \o h[r].content,
       FALSE)

\* _buildTreeRec on a non-empty list (on an empty one it calls itself on an empty list)
RECURSIVE buildTreeRec(_, _, _)
buildTreeRec(fn, h, nodes) ==
  LET p    == Padded(h, nodes)
      half == Len(p.nodes) \div 2
  IN  IF Len(p.nodes) = 2
      THEN Alloc(p.heap, Parent(fn, p.heap, p.nodes[1], p.nodes[2]))
      ELSE LET l == buildTreeRec(fn, p.heap, SubSeq(p.nodes, 1, half))
               r == buildTreeRec(fn, l.heap, SubSeq(p.nodes, half + 1, Len(p.nodes)))
           IN  Alloc(r.heap, Parent(fn, r.heap, l.id, r.id))

buildTree(fn, vals) ==
  LET ls == Leaves(fn, vals, <<>>)
  IN  buildTreeRec(fn, ls.heap, ls.nodes)

(***************************************************************************)
(* MerkleTree.get_location                                                 *)
(***************************************************************************)
\* get_location_rec with the direction bits exchanged: 1 for left, 0 for right
RECURSIVE get_location_rec_swapped(_, _, _, _)
get_location_rec_swapped(h, node, block_hash, path) ==
  IF node = NoNode THEN None
  ELSE IF h[node].value = block_hash /\ ~h[node].is_copied THEN Some(path)
  ELSE LET left_path ==
             get_location_rec_swapped(h, h[node].left, block_hash, Append(path, 1))
       IN  IF left_path # None THEN left_path
           ELSE get_location_rec_swapped(h, h[node].right, block_hash, Append(path, 0))

RECURSIVE get_location_rec(_, _, _, _)
get_location_rec(h, node, block_hash, path) ==
  IF node = NoNode THEN None
  ELSE IF h[node].value = block_hash /\ ~h[node].is_copied THEN Some(path)
  ELSE LET left_path == get_location_rec(h, h[node].left, block_hash, Append(path, 0))
       IN  IF left_path # None THEN left_path
           ELSE get_location_rec(h, h[node].right, block_hash, Append(path, 1))

get_location(h, r, block_hash) == get_location_rec(h, r, block_hash, <<>>)

(***************************************************************************)
(* MerkleTree.get_proof                                                    *)
(***************************************************************************)
\* index counts from 0, as in the source
RECURSIVE get_proof_rec(_, _, _, _, _)
get_proof_rec(h, node, location, index, proof) ==
  IF node = NoNode \/ index >= Len(location) THEN Some(proof)
  ELSE IF h[node].right # NoNode /\ location[index + 1] = 0
       THEN get_proof_rec(h, h[node].left, location, index + 1,
                          Append(proof, h[h[node].right].value))
  ELSE IF h[node].left # NoNode /\ location[index + 1] = 1
       THEN get_proof_rec(h, h[node].right, location, index + 1,
                          Append(proof, h[h[node].left].value))
  ELSE None

\* get_proof without its return of None for a hash that has no location
get_proof_unchecked(h, r, block_hash) ==
  LET location == get_location(h, r, block_hash)
  IN  get_proof_rec(h, r, IF location = None THEN <<>> ELSE location[1], 0, <<>>)

get_proof(h, r, block_hash) ==
  LET location == get_location(h, r, block_hash)
  IN  IF location = None THEN None
      ELSE get_proof_rec(h, r, location[1], 0, <<>>)

(***************************************************************************)
(* verify_proof                                                            *)
(***************************************************************************)
\* verify_fold over proof, not over reversed(proof): i entries still to come
RECURSIVE verify_fold_forward(_, _, _, _)
verify_fold_forward(fn, current_hash, proof, i) ==
  IF i = 0 THEN Some(current_hash)
  ELSE LET sibling_hash == proof[Len(proof) - i + 1]
       IN  IF bytes_xor_raises(current_hash, sibling_hash) THEN None
           ELSE verify_fold_forward(fn, Hash(fn, bytes_xor(current_hash, sibling_hash)),
                                    proof, i - 1)

\* the loop over reversed(proof), entries i, i-1, ..., 1 still to come:
\* None when bytes_xor raises, else the last current_hash
RECURSIVE verify_fold(_, _, _, _)
verify_fold(fn, current_hash, proof, i) ==
  IF i = 0 THEN Some(current_hash)
  ELSE IF bytes_xor_raises(current_hash, proof[i]) THEN None
  ELSE verify_fold(fn, Hash(fn, bytes_xor(current_hash, proof[i])), proof, i - 1)

\* [raised, result]: AssertionError out of bytes_xor, or the boolean returned
verify_proof(root_hash, block_hash, proof, fn) ==
  LET last == verify_fold(fn, block_hash, proof, Len(proof))
  IN  IF last = None THEN [raised |-> TRUE, result |-> None]
      ELSE [raised |-> FALSE, result |-> Some(last[1] = root_hash)]

(***************************************************************************)
(* MerkleTree.verify_block, compare_trees                                  *)
(***************************************************************************)
\* verify_block_rec that compares the values of the leaves only
RECURSIVE verify_block_rec_leaves(_, _, _)
verify_block_rec_leaves(h, node, block_hash) ==
  IF node = NoNode THEN FALSE
  ELSE \/ (h[node].left = NoNode /\ h[node].right = NoNode /\ h[node].value = block_hash)
       \/ verify_block_rec_leaves(h, h[node].left, block_hash)
       \/ verify_block_rec_leaves(h, h[node].right, block_hash)

RECURSIVE verify_block_rec(_, _, _)
verify_block_rec(h, node, block_hash) ==
  IF node = NoNode THEN FALSE
  ELSE \/ h[node].value = block_hash
       \/ verify_block_rec(h, h[node].left, block_hash)
       \/ verify_block_rec(h, h[node].right, block_hash)

verify_block(h, r, root_hash, block_hash) ==
  h[r].value = root_hash /\ verify_block_rec(h, r, block_hash)

\* self._root.value == other._root.value, other a tree over other_values
compare_trees(h, r, fn, other_values) ==
  LET other == buildTree(fn, other_values)
  IN  h[r].value = other.heap[other.id].value

(***************************************************************************)
(* The calls a program makes on one tree.  ret is the last call: its       *)
(* arguments and what it returned or raised.                               *)
(***************************************************************************)
Call(op, root_hash, block_hash, proof, other, raised, result) ==
  [op |-> op, root_hash |-> root_hash, block_hash |-> block_hash, proof |-> proof,
   other |-> other, raised |-> raised, result |-> result]

NoCall == Call("none", None, None, None, None, FALSE, None)

\* n pairwise distinct blocks: Block(s), Block(s + 1), ... around ShapeBlocks
ShapeList(s, n) == [i \in 1..n |-> Block((s + i - 1) % MaxShape)]
ShapeLists == {ShapeList(s, n) : s \in 0..(MaxShape - 1), n \in 1..MaxShape}

\* the non-empty block lists trees are built from
BlockLists == (SeqsUpTo(Blocks, MaxBlocks) \ {<<>>}) \cup ShapeLists

RootValue == heap[root].value

NodeIds == 1..Len(heap)

\* the root hashes a caller passes: the tree's own, and one that need not be it
RootHashInputs == {RootValue, Encode(0)}

\* the block hashes a caller asks about: the hash of every block, in the list or
\* not, the value of every node of the tree, and two more hash values
BlockHashInputs ==
  {Hash(hash_fn, b) : b \in Blocks \cup ShapeBlocks}
    \cup {heap[k].value : k \in NodeIds}
    \cup {Encode(0), Encode(Pow2(HashLen) - 1)}

\* the proofs a caller passes for block_hash: the tree's own proof, the empty proof,
\* and one-entry proofs whose entry is too short, or of the right length
ProofInputs(block_hash) ==
  LET own == get_proof(heap, root, block_hash)
  IN  (IF own = None THEN {} ELSE {own[1]}) \cup {<<>>, << <<1>> >>, << Encode(1) >>}

\* values with the blocks at i and j swapped, and with the block at i replaced by b
Swapped(vals, i, j) ==
  [k \in 1..Len(vals) |-> IF k = i THEN vals[j] ELSE IF k = j THEN vals[i] ELSE vals[k]]
Replaced(vals, i, b) == [k \in 1..Len(vals) |-> IF k = i THEN b ELSE vals[k]]

\* the block lists of the other tree of compare_trees: the same list, its
\* reorderings by one swap, and the lists that differ from it in one position
OtherLists ==
  {values}
    \cup {Swapped(values, i, j) : i, j \in 1..Len(values)}
    \cup {Replaced(values, i, b) : i \in 1..Len(values), b \in Blocks}

Init ==
  /\ values \in BlockLists
  /\ hash_fn \in HashFns
  /\ heap = <<>>
  /\ root = NoNode
  /\ pc = "new"
  /\ ret = NoCall
  /\ ext = NoNode
  /\ writes = 0
  /\ stack = <<>>

\* MerkleTree.__init__
Construct ==
  /\ pc = "new"
  /\ LET t == buildTree(hash_fn, values)
     IN  /\ heap' = t.heap
         /\ root' = t.id
  /\ pc' = "built"
  /\ UNCHANGED <<values, hash_fn, ret, ext, writes, stack>>

\* a call is made on a built tree, when the caller holds no earlier result
Ready == pc = "built" /\ ret = NoCall

GetLocation ==
  /\ Ready
  /\ \E block_hash \in BlockHashInputs :
       ret' = Call("get_location", None, Some(block_hash), None, None, FALSE,
                   Some(get_location(heap, root, block_hash)))
  /\ UNCHANGED <<values, hash_fn, heap, root, pc, ext, writes, stack>>

GetProof ==
  /\ Ready
  /\ \E block_hash \in BlockHashInputs :
       ret' = Call("get_proof", None, Some(block_hash), None, None, FALSE,
                   Some(get_proof(heap, root, block_hash)))
  /\ UNCHANGED <<values, hash_fn, heap, root, pc, ext, writes, stack>>

VerifyBlock ==
  /\ Ready
  /\ \E root_hash \in RootHashInputs, block_hash \in BlockHashInputs :
       ret' = Call("verify_block", Some(root_hash), Some(block_hash), None, None, FALSE,
                   Some(verify_block(heap, root, root_hash, block_hash)))
  /\ UNCHANGED <<values, hash_fn, heap, root, pc, ext, writes, stack>>

VerifyProof ==
  /\ Ready
  /\ \E root_hash \in RootHashInputs, block_hash \in BlockHashInputs \cup {<<1>>} :
       \E proof \in ProofInputs(block_hash) :
         LET r == verify_proof(root_hash, block_hash, proof, hash_fn)
         IN  ret' = Call("verify_proof", Some(root_hash), Some(block_hash), Some(proof),
                         None, r.raised, r.result)
  /\ UNCHANGED <<values, hash_fn, heap, root, pc, ext, writes, stack>>

CompareTrees ==
  /\ Ready
  /\ \E other_values \in OtherLists :
       ret' = Call("compare_trees", None, None, None, Some(other_values), FALSE,
                   Some(compare_trees(heap, root, hash_fn, other_values)))
  /\ UNCHANGED <<values, hash_fn, heap, root, pc, ext, writes, stack>>

\* the caller is done with what the last call returned, and goes on to its next call
Forget ==
  /\ ret # NoCall
  /\ ret' = NoCall
  /\ UNCHANGED <<values, hash_fn, heap, root, pc, ext, writes, stack>>

Next ==
  \/ Construct
  \/ GetLocation
  \/ GetProof
  \/ VerifyBlock
  \/ VerifyProof
  \/ CompareTrees
  \/ Forget

Spec == Init /\ [][Next]_vars

(***************************************************************************)
(* What the properties speak of.                                           *)
(***************************************************************************)
\* the nodes of the tree under node
RECURSIVE Reach(_, _)
Reach(h, node) ==
  IF node = NoNode THEN {}
  ELSE {node} \cup Reach(h, h[node].left) \cup Reach(h, h[node].right)

TreeNodes == Reach(heap, root)
TreeValues == {heap[k].value : k \in TreeNodes}
InternalNodes == {k \in TreeNodes : heap[k].left # NoNode}
LeafNodes == TreeNodes \ InternalNodes

\* the hashes of the input blocks
ValueHashes == {Hash(hash_fn, values[i]) : i \in 1..Len(values)}

\* a hash function without collisions on the inputs of HashLen bytes: the blocks,
\* and the XOR of two hash values, are such inputs
CollisionFree ==
  Cardinality({Hash(hash_fn, x) : x \in HashValues}) = Cardinality(HashValues)

PairwiseDistinct(vals) == \A i, j \in 1..Len(vals) : vals[i] = vals[j] => i = j

InternalValues == {heap[k].value : k \in InternalNodes}

IsPow2(n) == \E d \in 0..n : Pow2(d) = n

\* the least d with 2^d >= n
RECURSIVE CeilLog2(_)
CeilLog2(n) == IF n <= 1 THEN 0 ELSE 1 + CeilLog2((n + 1) \div 2)

Max(a, b) == IF a >= b THEN a ELSE b

\* i in binary, the most significant bit first, in w digits
Bits(i, w) == [k \in 1..w |-> (i \div Pow2(w - k)) % 2]

\* every leaf under node is d levels below it, and no node has one child only
RECURSIVE Perfect(_, _, _)
Perfect(h, node, d) ==
  IF d = 0 THEN h[node].left = NoNode /\ h[node].right = NoNode
  ELSE /\ h[node].left # NoNode /\ h[node].right # NoNode
       /\ Perfect(h, h[node].left, d - 1)
       /\ Perfect(h, h[node].right, d - 1)

(***************************************************************************)
(* C1  Round trip: for every non-empty block list (repeated blocks         *)
(* allowed), every hash function and every block b of the list,            *)
(* get_proof(H(b)) is not None, and verify_proof of the root value, H(b)   *)
(* and that proof returns True.                                            *)
(***************************************************************************)
C1_RoundTrip ==
  /\ (ret.op = "get_proof" /\ ret.block_hash[1] \in ValueHashes)
       => ret.result[1] # None
  /\ (/\ ret.op = "verify_proof"
      /\ ret.block_hash[1] \in ValueHashes
      /\ ret.root_hash[1] = RootValue
      /\ ret.proof = get_proof(heap, root, ret.block_hash[1]))
       => (~ret.raised /\ ret.result = Some(TRUE))

\* a proof of two entries or more, of a list with a repeated block, has verified
C1_Witness ==
  /\ ret.op = "verify_proof"
  /\ ret.block_hash[1] \in ValueHashes
  /\ ret.root_hash[1] = RootValue
  /\ ret.proof = get_proof(heap, root, ret.block_hash[1])
  /\ Len(ret.proof[1]) >= 2
  /\ ~PairwiseDistinct(values)
  /\ ret.result = Some(TRUE)

C4_VerifyNeverRaises ==
  ret.op = "verify_proof"
    => /\ ~ret.raised
       /\ ret.result \in {Some(TRUE), Some(FALSE)}
       /\ (\E i \in 1..Len(ret.proof[1]) : Len(ret.proof[1][i]) # Len(ret.block_hash[1]))
            => ret.result = Some(FALSE)

(***************************************************************************)
(* C5  Order sensitivity: with a collision-free hash, a tree built from a  *)
(* reordering of the block list that is a different sequence has a         *)
(* different root hash.                                                    *)
(***************************************************************************)
IsReordering(a, b) ==
  /\ Len(a) = Len(b)
  /\ \A x \in Range(a) \cup Range(b) :
       Cardinality({i \in 1..Len(a) : a[i] = x}) = Cardinality({i \in 1..Len(b) : b[i] = x})

C5_OrderSensitive ==
  (/\ ret.op = "compare_trees"
   /\ CollisionFree
   /\ IsReordering(values, ret.other[1])
   /\ ret.other[1] # values)
    => ret.result = Some(FALSE)

(***************************************************************************)
(* C6  verify_block(root_hash, block_hash) is True exactly when root_hash  *)
(* is the value of the root and some node of the tree, leaf or internal,   *)
(* copied or not, has the value block_hash.                                *)
(***************************************************************************)
C6_VerifyBlock ==
  ret.op = "verify_block"
    => ret.result = Some(/\ ret.root_hash[1] = RootValue
                         /\ \E k \in TreeNodes : heap[k].value = ret.block_hash[1])

\* verify_block has answered True for the hash of an input block
C6_Witness ==
  /\ ret.op = "verify_block"
  /\ ret.root_hash[1] = RootValue
  /\ ret.block_hash[1] \in ValueHashes
  /\ ret.result = Some(TRUE)

(***************************************************************************)
(* C10  The root hash binds the blocks: with a collision-free hash, two    *)
(* block lists of the same length that differ in a position have different *)
(* root hashes, and compare_trees returns False for them.                  *)
(***************************************************************************)
C10_RootBindsBlocks ==
  (/\ ret.op = "compare_trees"
   /\ CollisionFree
   /\ Len(ret.other[1]) = Len(values)
   /\ ret.other[1] # values)
    => ret.result = Some(FALSE)

(***************************************************************************)
(* C3  Path correctness, as claimed: for n pairwise distinct blocks, n a   *)
(* power of two (1, 2, 4, 8), and a collision-free hash,                   *)
(* get_location(H(values[i])) is i in binary, most significant bit first,  *)
(* in exactly log2(n) direction bits.                                      *)
(***************************************************************************)
C3_PathAsClaimed ==
  (/\ ret.op = "get_location"
   /\ IsPow2(Len(values))
   /\ PairwiseDistinct(values)
   /\ CollisionFree)
    => \A i \in 1..Len(values) :
         ret.block_hash[1] = Hash(hash_fn, values[i])
           => ret.result[1] = Some(Bits(i - 1, CeilLog2(Len(values))))

(***************************************************************************)
(* C3  Path correctness, amended: for n pairwise distinct blocks, n a      *)
(* power of two, and a collision-free hash, get_location(H(values[i])) is  *)
(* i in binary, most significant bit first, in max(1, log2(n)) direction   *)
(* bits, for every i for which H(values[i]) is not the value of an         *)
(* internal node.                                                          *)
(***************************************************************************)
C3_Path ==
  (/\ ret.op = "get_location"
   /\ IsPow2(Len(values))
   /\ PairwiseDistinct(values)
   /\ CollisionFree
   /\ ret.block_hash[1] \notin InternalValues)
    => \A i \in 1..Len(values) :
         ret.block_hash[1] = Hash(hash_fn, values[i])
           => ret.result[1] = Some(Bits(i - 1, Max(1, CeilLog2(Len(values)))))

\* the sixth of eight blocks has been located at 1, 0, 1
C3_Witness ==
  /\ ret.op = "get_location"
  /\ Len(values) = 8
  /\ PairwiseDistinct(values)
  /\ CollisionFree
  /\ ret.block_hash[1] \notin InternalValues
  /\ ret.block_hash[1] = Hash(hash_fn, values[6])
  /\ ret.result[1] = Some(<<1, 0, 1>>)

(***************************************************************************)
(* C9  Tree shape, as claimed: for a list of n >= 1 blocks the tree is a   *)
(* perfect binary tree with every leaf at depth d = max(1, ceil(log2 n))   *)
(* and 2^d leaves, every internal node has the value                       *)
(* H(bytes_xor(left.value, right.value)), and, with pairwise distinct      *)
(* blocks and a collision-free hash, the location and the proof of the     *)
(* hash of every input block have exactly d entries.                       *)
(***************************************************************************)
TreeDepth == Max(1, CeilLog2(Len(values)))

ShapeOfTree ==
  /\ Perfect(heap, root, TreeDepth)
  /\ Cardinality(LeafNodes) = Pow2(TreeDepth)
  /\ \A k \in InternalNodes :
       heap[k].value
         = Hash(hash_fn, bytes_xor(heap[heap[k].left].value, heap[heap[k].right].value))

Frame(nodes) == [nodes |-> nodes, stage |-> "enter", left |-> NoNode, right |-> NoNode]

Top == stack[Len(stack)]
Callers == SubSeq(stack, 1, Len(stack) - 1)
WithTop(stk, f) == [stk EXCEPT ![Len(stk)] = f]

\* the callers' stack once the call on top has returned node id to its caller
Returned(stk, id) ==
  IF stk = <<>> THEN stk
  ELSE LET f == stk[Len(stk)]
       IN  IF f.stage = "left"
           THEN WithTop(stk, [f EXCEPT !.left = id, !.stage = "callright"])
           ELSE WithTop(stk, [f EXCEPT !.right = id, !.stage = "combine"])

InitBuild ==
  /\ values \in SeqsUpTo(Blocks, MaxBlocks) \cup ShapeLists
  /\ hash_fn \in HashFns
  /\ heap = <<>>
  /\ root = NoNode
  /\ pc = "new"
  /\ ret = NoCall
  /\ ext = NoNode
  /\ writes = 0
  /\ stack = <<>>

\* _buildTree: the leaves, and the call _buildTreeRec(leaves)
BuildTreeCall ==
  /\ pc = "new"
  /\ LET ls == Leaves(hash_fn, values, <<>>)
     IN  /\ heap' = ls.heap
         /\ stack' = <<Frame(ls.nodes)>>
  /\ pc' = "building"
  /\ UNCHANGED <<values, hash_fn, root, ret, ext, writes>>

\* _buildTreeRec on a list that is two nodes long once padded: the parent is returned
RecBase ==
  /\ pc = "building" /\ Top.stage = "enter"
  /\ LET p == Padded(heap, Top.nodes)
     IN  /\ Len(p.nodes) = 2
         /\ LET a == Alloc(p.heap, Parent(hash_fn, p.heap, p.nodes[1], p.nodes[2]))
            IN  /\ heap' = a.heap
                /\ stack' = Returned(Callers, a.id)
                /\ root' = IF Callers = <<>> THEN a.id ELSE root
                /\ pc' = IF Callers = <<>> THEN "done" ELSE pc
  /\ UNCHANGED <<values, hash_fn, ret, ext, writes>>

\* _buildTreeRec on any other list: padded, then the call self._buildTreeRec(nodes[:half])
RecCallLeft ==
  /\ pc = "building" /\ Top.stage = "enter"
  /\ Len(stack) < MaxDepth
  /\ LET p    == Padded(heap, Top.nodes)
         half == Len(p.nodes) \div 2
     IN  /\ Len(p.nodes) # 2
         /\ heap' = p.heap
         /\ stack' = Append(WithTop(stack, [Top EXCEPT !.nodes = p.nodes, !.stage = "left"]),
                            Frame(SubSeq(p.nodes, 1, half)))
  /\ UNCHANGED <<values, hash_fn, root, pc, ret, ext, writes>>

\* the call self._buildTreeRec(nodes[half:])
RecCallRight ==
  /\ pc = "building" /\ Top.stage = "callright"
  /\ Len(stack) < MaxDepth
  /\ LET half == Len(Top.nodes) \div 2
     IN  stack' = Append(WithTop(stack, [Top EXCEPT !.stage = "right"]),
                         Frame(SubSeq(Top.nodes, half + 1, Len(Top.nodes))))
  /\ UNCHANGED <<values, hash_fn, heap, root, pc, ret, ext, writes>>

\* the parent of the two subtrees is returned
RecCombine ==
  /\ pc = "building" /\ Top.stage = "combine"
  /\ LET a == Alloc(heap, Parent(hash_fn, heap, Top.left, Top.right))
     IN  /\ heap' = a.heap
         /\ stack' = Returned(Callers, a.id)
         /\ root' = IF Callers = <<>> THEN a.id ELSE root
         /\ pc' = IF Callers = <<>> THEN "done" ELSE pc
  /\ UNCHANGED <<values, hash_fn, ret, ext, writes>>

NextBuild ==
  \/ BuildTreeCall
  \/ RecBase
  \/ RecCallLeft
  \/ RecCallRight
  \/ RecCombine

SpecBuild == InitBuild /\ [][NextBuild]_vars

\* the tree the calls leave is the tree of buildTree
BuildStepsAgree ==
  pc = "done"
    => LET t == buildTree(hash_fn, values)
       IN  heap = t.heap /\ root = t.id

(***************************************************************************)
(* C8  Construction from an empty block list fails fast: _buildTreeRec on  *)
(* an empty list does not return a tree and does not go on calling itself  *)
(* on an empty list; and from a list of one block or more construction     *)
(* comes to an end and returns a root: every call of _buildTreeRec is on a *)
(* non-empty list, shorter than the list of its caller, and the outermost  *)
(* call returns a node.                                                    *)
(***************************************************************************)
C8_EmptyFailsFast ==
  /\ values = <<>>
       => /\ pc # "done"
          /\ \A i, j \in 1..Len(stack) :
               (stack[i].nodes = <<>> /\ stack[j].nodes = <<>>) => i = j
  /\ values # <<>>
       => /\ \A i \in 1..Len(stack) : stack[i].nodes # <<>>
          /\ \A i \in 2..Len(stack) : Len(stack[i].nodes) < Len(stack[i - 1].nodes)
          /\ (pc # "new" /\ stack = <<>>) => (pc = "done" /\ root # NoNode)

(***************************************************************************)
(* SpecExt: external code takes the node the root property returns and     *)
(* writes to it, or to a node it reaches from it through left and right.   *)
(***************************************************************************)
InitExt ==
  /\ values \in SeqsUpTo(Blocks, MaxBlocks) \ {<<>>}
  /\ hash_fn \in HashFns
  /\ heap = <<>>
  /\ root = NoNode
  /\ pc = "new"
  /\ ret = NoCall
  /\ ext = NoNode
  /\ writes = 0
  /\ stack = <<>>

\* MerkleTree.root: self._root.copy(), a new Node with the children of the root
RootProperty ==
  /\ Ready /\ ext = NoNode
  /\ LET a == Alloc(heap, NodeCopy(heap[root]))
     IN  /\ heap' = a.heap
         /\ ext' = a.id
  /\ UNCHANGED <<values, hash_fn, root, pc, ret, writes, stack>>

\* node.value = v, on the node returned or on one reached from it
ExternalWriteValue ==
  /\ Ready /\ ext # NoNode /\ writes < MaxWrites
  /\ \E node \in Reach(heap, ext), v \in {Encode(0), Encode(Pow2(HashLen) - 1)} :
       /\ heap[node].value # v
       /\ heap' = [heap EXCEPT ![node].value = v]
  /\ writes' = writes + 1
  /\ UNCHANGED <<values, hash_fn, root, pc, ret, ext, stack>>

\* node.is_copied = not node.is_copied, on the node returned or on one reached from it
ExternalWriteCopied ==
  /\ Ready /\ ext # NoNode /\ writes < MaxWrites
  /\ \E node \in Reach(heap, ext) :
       heap' = [heap EXCEPT ![node].is_copied = ~heap[node].is_copied]
  /\ writes' = writes + 1
  /\ UNCHANGED <<values, hash_fn, root, pc, ret, ext, stack>>

NextExt ==
  \/ Construct
  \/ RootProperty
  \/ ExternalWriteValue
  \/ ExternalWriteCopied
  \/ GetLocation
  \/ GetProof
  \/ VerifyBlock
  \/ CompareTrees
  \/ Forget

SpecExt == InitExt /\ [][NextExt]_vars

(***************************************************************************)
(* C7  Immutability through the accessor: whatever external code writes to *)
(* the node the root property returned, or to a node reached from it, the  *)
(* tree is as it was built: get_location, get_proof, verify_block and      *)
(* compare_trees return what they return on the tree as built.             *)
(***************************************************************************)
C7_ImmutableThroughRoot ==
  (pc = "built" /\ ret.op # "none")
    => LET t == buildTree(hash_fn, values)
       IN  /\ ret.op = "get_location"
                => ret.result = Some(get_location(t.heap, t.id, ret.block_hash[1]))
           /\ ret.op = "get_proof"
                => ret.result = Some(get_proof(t.heap, t.id, ret.block_hash[1]))
           /\ ret.op = "verify_block"
                => ret.result
                     = Some(verify_block(t.heap, t.id, ret.root_hash[1], ret.block_hash[1]))
           /\ ret.op = "compare_trees"
                => ret.result = Some(compare_trees(t.heap, t.id, hash_fn, ret.other[1]))

====
